---- MODULE Spec2Model ----
(***************************************************************************)
(* Model of the header-to-type-library lowering pass of                    *)
(* Binja_Typelib_Processing (src/ast_handlers.py, src/pre_process.py).     *)
(*                                                                         *)
(* A spelling is the sequence of its whitespace/lexical tokens             *)
(* ("struct A *" is <<"struct", "A", "*">>); a name is a spelling of one   *)
(* token and the empty string is <<>>.  f'{a} {b}' is a \o b.              *)
(* The libclang AST is a table of cursors (Nodes) keyed by an id; a type   *)
(* refers to its declaration by id.  The BinaryView is a record            *)
(* [types, log]: the name -> Type mapping, and the trace of calls the      *)
(* handlers made (define_user_type, parse_type_string, handler entry and   *)
(* exit).  A handler returns [bv, ret, exc, path]: the view afterwards,    *)
(* the returned pair (or None), and the exception that left it, if any.    *)
(***************************************************************************)
EXTENDS Integers, Sequences, FiniteSets, TLC

VARIABLES tu, pc, idx, bv, exc, ret, tl

vars == <<tu, pc, idx, bv, exc, ret, tl>>

(* Python's recursion limit, scaled down: a call nested deeper raises
   RecursionError. *)
RecursionLimit == 8

\* src/ast_handlers.py:23
INCOMPLETE_ARRAY_ARBITRARY_SIZE == 4096

---------------------------------------------------------------------------
(* libclang types (clang.cindex.Type) *)

InvalidType == [kind |-> "INVALID", spelling |-> <<>>]

Builtin(kind, spelling) == [kind |-> kind, spelling |-> spelling]

IntT == Builtin("INT", <<"int">>)
CharT == Builtin("CHAR_S", <<"char">>)
VoidT == Builtin("VOID", <<"void">>)
ConstVoidT == Builtin("VOID", <<"const", "void">>)

(* A tag type as written at a use ("struct A x;"): ELABORATED in C. *)
Elaborated(tag, name, decl) ==
    [kind |-> "ELABORATED", spelling |-> <<tag, name>>, decl |-> decl]

(* The type of a tag declaration's own cursor. *)
RecordType(tag, name, decl) ==
    [kind |-> "RECORD", spelling |-> <<tag, name>>, decl |-> decl]

EnumType(spelling, decl) == [kind |-> "ENUM", spelling |-> spelling, decl |-> decl]

TypedefType(name, decl) == [kind |-> "TYPEDEF", spelling |-> <<name>>, decl |-> decl]

RECURSIVE ArrayDims(_)
ArrayDims(t) ==
    IF t.kind = "CONSTANTARRAY" THEN <<"[", ToString(t.size), "]">> \o ArrayDims(t.element)
    ELSE IF t.kind = "INCOMPLETEARRAY" THEN <<"[", "]">> \o ArrayDims(t.element)
    ELSE <<>>

RECURSIVE ArrayBase(_)
ArrayBase(t) ==
    IF t.kind \in {"CONSTANTARRAY", "INCOMPLETEARRAY"} THEN ArrayBase(t.element) ELSE t

RECURSIVE JoinArgs(_, _)
JoinArgs(args, variadic) ==
    IF args = <<>> THEN (IF variadic THEN <<"...">> ELSE <<>>)
    ELSE Head(args).spelling
         \o (IF Len(args) > 1 \/ variadic THEN <<",">> ELSE <<>>)
         \o JoinArgs(Tail(args), variadic)

FunctionProto(result, args, variadic) ==
    [kind |-> "FUNCTIONPROTO",
     spelling |-> result.spelling \o <<"(">> \o JoinArgs(args, variadic) \o <<")">>,
     result |-> result, args |-> args, variadic |-> variadic]

(* "long ()": no prototype, so no argument types and no variadic flag. *)
FunctionNoProto(result) ==
    [kind |-> "FUNCTIONNOPROTO",
     spelling |-> result.spelling \o <<"(", ")">>,
     result |-> result, args |-> <<>>]

PointerTo(t) ==
    [kind |-> "POINTER",
     spelling |->
        IF t.kind = "FUNCTIONPROTO"
        THEN t.result.spelling \o <<"(", "*", ")", "(">>
             \o JoinArgs(t.args, t.variadic) \o <<")">>
        ELSE IF t.kind = "FUNCTIONNOPROTO"
        THEN t.result.spelling \o <<"(", "*", ")", "(", ")">>
        ELSE t.spelling \o <<"*">>,
     pointee |-> t]

ConstantArray(t, n) ==
    LET a == [kind |-> "CONSTANTARRAY", spelling |-> <<>>, element |-> t, size |-> n]
    IN [a EXCEPT !.spelling = ArrayBase(t).spelling \o ArrayDims(a)]

IncompleteArray(t) ==
    LET a == [kind |-> "INCOMPLETEARRAY", spelling |-> <<>>, element |-> t]
    IN [a EXCEPT !.spelling = ArrayBase(t).spelling \o ArrayDims(a)]

get_pointee(t) == IF "pointee" \in DOMAIN t THEN t.pointee ELSE InvalidType
get_array_element_type(t) == IF "element" \in DOMAIN t THEN t.element ELSE InvalidType
get_array_size(t) == IF "size" \in DOMAIN t THEN t.size ELSE -1
get_result(t) == IF "result" \in DOMAIN t THEN t.result ELSE InvalidType
argument_types(t) == IF "args" \in DOMAIN t THEN t.args ELSE <<>>
(* clang.cindex asserts the kind FUNCTIONPROTO before it reads the flag. *)
is_function_variadic(t) == t.variadic
get_declaration(t) == IF "decl" \in DOMAIN t THEN t.decl ELSE "NO_DECL_FOUND"

---------------------------------------------------------------------------
(* libclang cursors (clang.cindex.Cursor) *)

Cursor(kind, spelling, type) ==
    [kind |-> kind, spelling |-> spelling, type |-> type,
     is_definition |-> FALSE, is_anonymous |-> FALSE,
     semantic_parent |-> "NO_DECL_FOUND",
     underlying_typedef_type |-> InvalidType,
     fields |-> <<>>, arguments |-> <<>>, children |-> <<>>, tokens |-> <<>>,
     size |-> 0, align |-> 1]

NoDeclFound == Cursor("NO_DECL_FOUND", <<>>, InvalidType)

StructDef(id, tag, name, fields, size) ==
    [Cursor(IF tag = "union" THEN "UNION_DECL" ELSE "STRUCT_DECL",
            <<name>>, RecordType(tag, name, id))
     EXCEPT !.is_definition = TRUE, !.fields = fields, !.size = size, !.align = 4]

FieldDecl(name, type, parent) ==
    [Cursor("FIELD_DECL", <<name>>, type)
     EXCEPT !.is_definition = TRUE, !.semantic_parent = parent]

VarDecl(name, type) == Cursor("VAR_DECL", <<name>>, type)

---------------------------------------------------------------------------
(* Binary Ninja types (bn.Type) *)

\* bn.Architecture["x86"]: the width of a pointer
AddressSize == 4

None == [class |-> "None"]

PrimWidth ==
    [void |-> 0, bool |-> 1, char |-> 1, short |-> 2, int |-> 4, long |-> 4,
     float |-> 4, double |-> 8]

PrimType(name) == [class |-> "prim", name |-> name, width |-> PrimWidth[name]]

Pointer(target) == [class |-> "pointer", target |-> target, width |-> AddressSize]

Array(element, count) ==
    [class |-> "array", element |-> element, count |-> count,
     width |-> element.width * count]

FunctionParameter(type, name) == [type |-> type, name |-> name]

Function(result, params, calling_convention, variable_arguments) ==
    [class |-> "function", result |-> result, params |-> params,
     calling_convention |-> calling_convention,
     variable_arguments |-> variable_arguments, width |-> 0]

(* bn.Structure(): no members, width 0, alignment 1, not a union. *)
Structure == [class |-> "structure", members |-> <<>>, width |-> 0, alignment |-> 1,
              union |-> FALSE]

Enumeration(members) == [class |-> "enumeration", members |-> members, width |-> 4]

NamedTypeReference(name, width) == [class |-> "named", ref |-> name, width |-> width]

(* struct.append(type, name); a None type is an AttributeError in the
   callers below. *)
StructAppend(struct, type, name) ==
    [struct EXCEPT !.members = Append(@, [type |-> type, name |-> name])]

(* Type.__len__ is the width: a Type of width 0 is falsy, like None. *)
Truthy(t) == t # None /\ t.width # 0

---------------------------------------------------------------------------
(* The BinaryView: bv.types maps a name to its Type, bv.log is the trace. *)

Log(view, event) == [view EXCEPT !.log = Append(@, event)]

(* BinaryNinja returns a type for the empty string (ast_handlers.py:38). *)
get_type_by_name(view, name) ==
    IF name = <<>> THEN PrimType("void")
    ELSE IF name \in DOMAIN view.types THEN view.types[name]
    ELSE None

define_user_type(view, name, type) ==
    [types |-> [n \in DOMAIN view.types \cup {name} |->
                    IF n = name THEN type ELSE view.types[n]],
     log |-> Append(view.log, [e |-> "define", name |-> name, type |-> type])]

Qualifiers == {"const", "volatile"}
TagKeywords == {"struct", "union", "enum"}
Punctuation == {"[", "]", "(", ")", "*", ",", "...", ";"}
ArraySizes == {1, 2, 3, 4, INCOMPLETE_ARRAY_ARBITRARY_SIZE}

IsNumber(tok) == \E n \in ArraySizes : ToString(n) = tok
ToNumber(tok) == CHOOSE n \in ArraySizes : ToString(n) = tok
IsIdentifier(tok) ==
    tok \notin Punctuation \cup Qualifiers \cup TagKeywords \cup DOMAIN PrimWidth
    /\ ~IsNumber(tok)

RECURSIVE SkipQualifiers(_, _)
SkipQualifiers(toks, i) ==
    IF i <= Len(toks) /\ toks[i] \in Qualifiers THEN SkipQualifiers(toks, i + 1) ELSE i

(* The declarator's pointer part, from token i: [type, next]. *)
RECURSIVE ParsePointers(_, _, _)
ParsePointers(toks, i, type) ==
    IF i <= Len(toks) /\ toks[i] = "*" THEN ParsePointers(toks, i + 1, Pointer(type))
    ELSE IF i <= Len(toks) /\ toks[i] \in Qualifiers THEN ParsePointers(toks, i + 1, type)
    ELSE [type |-> type, next |-> i]

(* The array bounds from token i to the end, outermost first; <<-1>> when the
   rest is not a list of bounds. *)
RECURSIVE ParseDims(_, _)
ParseDims(toks, i) ==
    IF i > Len(toks) THEN <<>>
    ELSE IF i + 2 <= Len(toks) /\ toks[i] = "[" /\ IsNumber(toks[i + 1]) /\ toks[i + 2] = "]"
    THEN LET rest == ParseDims(toks, i + 3)
         IN IF rest = <<-1>> THEN rest ELSE <<ToNumber(toks[i + 1])>> \o rest
    ELSE <<-1>>

RECURSIVE WrapArrays(_, _)
WrapArrays(type, dims) ==
    IF dims = <<>> THEN type ELSE Array(WrapArrays(type, Tail(dims)), Head(dims))

ParseError(message) == [ok |-> FALSE, type |-> None, name |-> <<>>, error |-> message]

(* bv.parse_type_string(text) -> (Type, name), or a SyntaxError.  The grammar
   the handlers rely on: [qualifiers] base {*} [name] {[n]} [;] where base is
   a primitive keyword, a registered name, or a tag keyword and a registered
   name.  A qualified void and a name after the bounds ("int [1] td") are
   rejected (ast_handlers.py:25, :106, :333).  error holds the phrases of
   the SyntaxError's message. *)
ParseArrays(type, name, dims) ==
    IF dims = <<-1>> THEN ParseError({"syntax error"})
    ELSE [ok |-> TRUE, type |-> WrapArrays(type, dims), name |-> name, error |-> {}]

(* after the base: p = [type, next] is the pointer part, then the name and
   the bounds *)
ParseDeclarator(toks, p) ==
    IF p.next <= Len(toks) /\ IsIdentifier(toks[p.next])
    THEN ParseArrays(p.type, <<toks[p.next]>>, ParseDims(toks, p.next + 1))
    ELSE ParseArrays(p.type, <<>>, ParseDims(toks, p.next))

ParseNamed(view, toks, n) ==
    IF n > Len(toks) THEN ParseError({"syntax error"})
    ELSE IF ~IsIdentifier(toks[n]) THEN ParseError({"syntax error"})
    ELSE IF <<toks[n]>> \notin DOMAIN view.types
    THEN ParseError({"syntax error", "is not defined"})
    ELSE ParseDeclarator(toks,
            ParsePointers(toks, n + 1,
                NamedTypeReference(<<toks[n]>>, view.types[<<toks[n]>>].width)))

ParseBase(view, toks, b) ==
    IF b > Len(toks) THEN ParseError({"syntax error"})
    ELSE IF toks[b] \in TagKeywords THEN ParseNamed(view, toks, b + 1)
    ELSE IF toks[b] \in DOMAIN PrimWidth
    THEN IF toks[b] = "void" /\ b > 1 THEN ParseError({"syntax error"})
         ELSE ParseDeclarator(toks, ParsePointers(toks, b + 1, PrimType(toks[b])))
    ELSE ParseNamed(view, toks, b)

ParseTokens(view, toks) == ParseBase(view, toks, SkipQualifiers(toks, 1))

ParseTypeString(view, text) ==
    ParseTokens(view, IF text # <<>> /\ text[Len(text)] = ";"
                      THEN SubSeq(text, 1, Len(text) - 1)
                      ELSE text)

(* parse_type_string as the handlers call it: the call is logged. *)
parse_type_string(view, text) ==
    [view |-> Log(view, [e |-> "parse", text |-> text]), p |-> ParseTypeString(view, text)]

---------------------------------------------------------------------------
(* What a handler hands back: the view afterwards, the returned pair (or
   None), the exception that left the handler ("" when it returned), and
   the dispatch branch of define_type that produced the pair. *)

Pair(name, type) == [some |-> TRUE, name |-> name, type |-> type]
NoPair == [some |-> FALSE, name |-> <<>>, type |-> None]

Return(view, name, type) == [bv |-> view, ret |-> Pair(name, type), exc |-> "", path |-> ""]
ReturnNone(view) == [bv |-> view, ret |-> NoPair, exc |-> "", path |-> ""]
Raise(view, exception) == [bv |-> view, ret |-> NoPair, exc |-> exception, path |-> ""]

(* "a, b = handler(...)": unpacking None is a TypeError. *)
Unpack(r) == IF r.exc = "" /\ ~r.ret.some THEN Raise(r.bv, "TypeError") ELSE r

(* "try: ... except Exception": the handler logs and falls off its end. *)
Catch(r) == IF r.exc # "" THEN ReturnNone(r.bv) ELSE r

\* src/ast_handlers.py:12
base_types ==
    {"BOOL", "CHAR16", "CHAR32", "CHAR_S", "CHAR_U", "DOUBLE", "FLOAT", "FLOAT128",
     "HALF", "INT", "UINT", "INT128", "LONG", "LONGLONG", "LONGDOUBLE", "SCHAR",
     "SHORT", "ULONG", "UCHAR", "ULONGLONG", "USHORT", "VOID", "WCHAR"}

\* src/ast_handlers.py:20
compiler_directives == {"__unaligned", "__attribute__((stdcall))"}

\* src/ast_handlers.py:26
void_types ==
    {<<"const", "void">>, <<"const", "volatile", "void">>, <<"volatile", "void">>,
     <<"__unaligned", "void">>, <<"const", "__unaligned", "void">>}

check_if_base_type(type) == type.kind \in base_types

remove_compiler_directives(type_str) ==
    SelectSeq(type_str, LAMBDA str_token : str_token \notin compiler_directives)

---------------------------------------------------------------------------
(* The declarations the headers below are made of. *)

TypedefDecl(id, name, underlying) ==
    [Cursor("TYPEDEF_DECL", <<name>>, TypedefType(name, id))
     EXCEPT !.is_definition = TRUE, !.underlying_typedef_type = underlying]

ParmDecl(name, type) == [Cursor("PARM_DECL", <<name>>, type) EXCEPT !.is_definition = TRUE]

FunctionDecl(name, type, arguments, tokens, is_definition) ==
    [Cursor("FUNCTION_DECL", <<name>>, type)
     EXCEPT !.arguments = arguments, !.tokens = tokens, !.is_definition = is_definition]

EnumDecl(id, spelling, type_spelling, children) ==
    [Cursor("ENUM_DECL", spelling, EnumType(type_spelling, id))
     EXCEPT !.is_definition = TRUE, !.children = children]

Keyword(spelling) == [kind |-> "KEYWORD", spelling |-> spelling]
Identifier(spelling) == [kind |-> "IDENTIFIER", spelling |-> spelling]
Punct(spelling) == [kind |-> "PUNCTUATION", spelling |-> spelling]

StructA == Elaborated("struct", "A", "A")

(* struct A { int val; struct A *next; };  struct A;  struct A x;
   struct A *pa;  struct A **ppa; *)
NodesA ==
    ("A" :> StructDef("A", "struct", "A", <<"A.val", "A.next">>, 8))
    @@ ("A.val" :> FieldDecl("val", IntT, "A"))
    @@ ("A.next" :> FieldDecl("next", PointerTo(StructA), "A"))
    @@ ("A.fwd" :> Cursor("STRUCT_DECL", <<"A">>, RecordType("struct", "A", "A")))
    @@ ("x" :> VarDecl("x", StructA))
    @@ ("pa" :> VarDecl("pa", PointerTo(StructA)))
    @@ ("ppa" :> VarDecl("ppa", PointerTo(PointerTo(StructA))))

(* struct S { struct S *arr[4]; };  struct M { int n; struct M *tail[]; };
   struct P { struct Q *q; };  struct Q { struct P *p; };
   union U { int i; char c; }; *)
NodesCyclic ==
    ("S" :> StructDef("S", "struct", "S", <<"S.arr">>, 16))
    @@ ("S.arr" :> FieldDecl("arr", ConstantArray(PointerTo(Elaborated("struct", "S", "S")), 4), "S"))
    @@ ("M" :> StructDef("M", "struct", "M", <<"M.n", "M.tail">>, 4))
    @@ ("M.n" :> FieldDecl("n", IntT, "M"))
    @@ ("M.tail" :> FieldDecl("tail", IncompleteArray(PointerTo(Elaborated("struct", "M", "M"))), "M"))
    @@ ("P" :> StructDef("P", "struct", "P", <<"P.q">>, 4))
    @@ ("P.q" :> FieldDecl("q", PointerTo(Elaborated("struct", "Q", "Q")), "P"))
    @@ ("Q" :> StructDef("Q", "struct", "Q", <<"Q.p">>, 4))
    @@ ("Q.p" :> FieldDecl("p", PointerTo(Elaborated("struct", "P", "P")), "Q"))
    @@ ("U" :> StructDef("U", "union", "U", <<"U.i", "U.c">>, 4))
    @@ ("U.i" :> FieldDecl("i", IntT, "U"))
    @@ ("U.c" :> FieldDecl("c", CharT, "U"))

(* int *p1;  int **p2;  int ***p3;  int ****p4;  const void *cv;
   int a1[2];  int a2[2][3];  int a3[2][3][4];  struct A sa[2];
   int u1[];  int *u2[];  int **u3[];  struct A u4[];  struct A *u5[]; *)
NodesPointersArrays ==
    ("p1" :> VarDecl("p1", PointerTo(IntT)))
    @@ ("p2" :> VarDecl("p2", PointerTo(PointerTo(IntT))))
    @@ ("p3" :> VarDecl("p3", PointerTo(PointerTo(PointerTo(IntT)))))
    @@ ("p4" :> VarDecl("p4", PointerTo(PointerTo(PointerTo(PointerTo(IntT))))))
    @@ ("cv" :> VarDecl("cv", PointerTo(ConstVoidT)))
    @@ ("cv2" :> VarDecl("cv2", PointerTo(PointerTo(ConstVoidT))))
    @@ ("cv3" :> VarDecl("cv3", PointerTo(PointerTo(PointerTo(ConstVoidT)))))
    @@ ("cva" :> VarDecl("cva", ConstantArray(PointerTo(ConstVoidT), 2)))
    @@ ("cvu" :> VarDecl("cvu", IncompleteArray(PointerTo(ConstVoidT))))
    @@ ("cvnp" :> VarDecl("cvnp", PointerTo(FunctionNoProto(ConstVoidT))))
    @@ ("a1" :> VarDecl("a1", ConstantArray(IntT, 2)))
    @@ ("a2" :> VarDecl("a2", ConstantArray(ConstantArray(IntT, 3), 2)))
    @@ ("a3" :> VarDecl("a3", ConstantArray(ConstantArray(ConstantArray(IntT, 4), 3), 2)))
    @@ ("sa" :> VarDecl("sa", ConstantArray(StructA, 2)))
    @@ ("u1" :> VarDecl("u1", IncompleteArray(IntT)))
    @@ ("u2" :> VarDecl("u2", IncompleteArray(PointerTo(IntT))))
    @@ ("u3" :> VarDecl("u3", IncompleteArray(PointerTo(PointerTo(IntT)))))
    @@ ("u4" :> VarDecl("u4", IncompleteArray(StructA)))
    @@ ("u5" :> VarDecl("u5", IncompleteArray(PointerTo(StructA))))

(* int f(int a, ...);  int g(int a, char b);  int h(int a) { ... }
   int __stdcall s(int a);  int __stdcall s2(void (__cdecl *cbp)(int));
   typedef int FT(int, ...);
   PFT: typedef of a pointer to int (int, char);
   PVT: typedef of a pointer to void (int, ...);
   cb: a pointer to void (int, ...);  cb2: a pointer to int (char);
   np: a pointer to long ();  int kr(); *)
NodesFunctions ==
    ("f" :> FunctionDecl("f", FunctionProto(IntT, <<IntT>>, TRUE), <<"f.a">>,
            <<Keyword("int"), Identifier("f"), Punct("("), Keyword("int"),
              Identifier("a"), Punct(","), Punct("..."), Punct(")")>>, FALSE))
    @@ ("f.a" :> ParmDecl("a", IntT))
    @@ ("g" :> FunctionDecl("g", FunctionProto(IntT, <<IntT, CharT>>, FALSE), <<"g.a", "g.b">>,
            <<Keyword("int"), Identifier("g"), Punct("("), Keyword("int"),
              Identifier("a"), Punct(","), Keyword("char"), Identifier("b"), Punct(")")>>,
            FALSE))
    @@ ("g.a" :> ParmDecl("a", IntT))
    @@ ("g.b" :> ParmDecl("b", CharT))
    @@ ("h" :> FunctionDecl("h", FunctionProto(IntT, <<IntT>>, FALSE), <<"h.a">>,
            <<Keyword("int"), Identifier("h"), Punct("("), Keyword("int"),
              Identifier("a"), Punct(")")>>, TRUE))
    @@ ("h.a" :> ParmDecl("a", IntT))
    @@ ("s" :> FunctionDecl("s", FunctionProto(IntT, <<IntT>>, FALSE), <<"s.a">>,
            <<Keyword("int"), Keyword("__stdcall"), Identifier("s"), Punct("("),
              Keyword("int"), Identifier("a"), Punct(")")>>, FALSE))
    @@ ("s.a" :> ParmDecl("a", IntT))
    @@ ("s2" :> FunctionDecl("s2",
            FunctionProto(IntT, <<PointerTo(FunctionProto(VoidT, <<IntT>>, FALSE))>>, FALSE),
            <<"s2.cbp">>,
            <<Keyword("int"), Keyword("__stdcall"), Identifier("s2"), Punct("("),
              Keyword("void"), Punct("("), Keyword("__cdecl"), Punct("*"),
              Identifier("cbp"), Punct(")"), Punct("("), Keyword("int"), Punct(")"),
              Punct(")")>>, FALSE))
    @@ ("s2.cbp" :> [ParmDecl("cbp", PointerTo(FunctionProto(VoidT, <<IntT>>, FALSE)))
                     EXCEPT !.tokens = <<Keyword("void"), Punct("("), Keyword("__cdecl"),
                                         Punct("*"), Identifier("cbp"), Punct(")"),
                                         Punct("("), Keyword("int"), Punct(")")>>])
    @@ ("FT" :> [TypedefDecl("FT", "FT", FunctionProto(IntT, <<IntT>>, TRUE))
                 EXCEPT !.tokens = <<Keyword("typedef"), Keyword("int"), Identifier("FT"),
                                     Punct("("), Keyword("int"), Punct(","), Punct("..."),
                                     Punct(")")>>])
    @@ ("PFT" :> TypedefDecl("PFT", "PFT", PointerTo(FunctionProto(IntT, <<IntT, CharT>>, FALSE))))
    @@ ("PVT" :> TypedefDecl("PVT", "PVT", PointerTo(FunctionProto(VoidT, <<IntT>>, TRUE))))
    @@ ("cb" :> VarDecl("cb", PointerTo(FunctionProto(VoidT, <<IntT>>, TRUE))))
    @@ ("cb2" :> VarDecl("cb2", PointerTo(FunctionProto(IntT, <<CharT>>, FALSE))))
    @@ ("np" :> VarDecl("np", PointerTo(FunctionNoProto(Builtin("LONG", <<"long">>)))))
    @@ ("kr" :> FunctionDecl("kr", FunctionNoProto(IntT), <<>>,
            <<Keyword("int"), Identifier("kr"), Punct("("), Punct(")")>>, FALSE))

(* enum E { E0, E1 };  enum E e;  typedef enum { N0 } NE;
   typedef int INT32;  INT32 v;  typedef struct Opaque OP;  OP o; *)
NodesOther ==
    ("E" :> EnumDecl("E", <<"E">>, <<"enum", "E">>, <<[spelling |-> "E0", enum_value |-> 0],
                                                    [spelling |-> "E1", enum_value |-> 1]>>))
    @@ ("e" :> VarDecl("e", [kind |-> "ELABORATED", spelling |-> <<"enum", "E">>, decl |-> "E"]))
    @@ ("NE.enum" :> EnumDecl("NE.enum", <<>>, <<"NE">>, <<[spelling |-> "N0", enum_value |-> 0]>>))
    @@ ("INT32" :> TypedefDecl("INT32", "INT32", IntT))
    @@ ("v" :> VarDecl("v", TypedefType("INT32", "INT32")))
    @@ ("OP" :> TypedefDecl("OP", "OP", Elaborated("struct", "Opaque", "NO_DECL_FOUND")))
    @@ ("o" :> VarDecl("o", TypedefType("OP", "OP")))

(* A STRUCT_DECL / UNION_DECL cursor without a tag: its spelling is empty
   and its type is spelled after its place in the header. *)
AnonymousDef(id, tag, place, fields, size) ==
    [Cursor(IF tag = "union" THEN "UNION_DECL" ELSE "STRUCT_DECL",
            <<>>, RecordType(tag, place, id))
     EXCEPT !.is_definition = TRUE, !.is_anonymous = TRUE,
            !.fields = fields, !.size = size, !.align = 4]

(* struct { int m; } an1, an2[2];  union { char k; } au1; *)
NodesAnonymous ==
    ("an.struct" :> AnonymousDef("an.struct", "struct", "(unnamed at h.h:1:1)", <<"an.m">>, 4))
    @@ ("an.m" :> FieldDecl("m", IntT, "an.struct"))
    @@ ("an1" :> VarDecl("an1", Elaborated("struct", "(unnamed at h.h:1:1)", "an.struct")))
    @@ ("an2" :> VarDecl("an2", ConstantArray(
                     Elaborated("struct", "(unnamed at h.h:1:1)", "an.struct"), 2)))
    @@ ("au.union" :> AnonymousDef("au.union", "union", "(unnamed at h.h:2:1)", <<"au.k">>, 1))
    @@ ("au.k" :> FieldDecl("k", CharT, "au.union"))
    @@ ("au1" :> VarDecl("au1", Elaborated("union", "(unnamed at h.h:2:1)", "au.union")))

(* struct O { struct I { int a; } in; };  struct I y;
   The declaration of I is a child of O's cursor, not of the root. *)
NodesNested ==
    ("O" :> StructDef("O", "struct", "O", <<"O.in">>, 4))
    @@ ("O.in" :> FieldDecl("in", Elaborated("struct", "I", "I"), "O"))
    @@ ("I" :> StructDef("I", "struct", "I", <<"I.a">>, 4))
    @@ ("I.a" :> FieldDecl("a", IntT, "I"))
    @@ ("y" :> VarDecl("y", Elaborated("struct", "I", "I")))

(* struct F1 { int *p; };  struct F2 { char p; };
   union { char *p; } fu;  two aggregates after F1 with a field named p. *)
NodesSameFieldName ==
    ("F1" :> StructDef("F1", "struct", "F1", <<"F1.p">>, 4))
    @@ ("F1.p" :> FieldDecl("p", PointerTo(IntT), "F1"))
    @@ ("F2" :> StructDef("F2", "struct", "F2", <<"F2.p">>, 1))
    @@ ("F2.p" :> FieldDecl("p", CharT, "F2"))
    @@ ("fu.union" :> AnonymousDef("fu.union", "union", "(unnamed at h.h:9:1)", <<"fu.p">>, 4))
    @@ ("fu.p" :> FieldDecl("p", PointerTo(CharT), "fu.union"))
    @@ ("fu" :> VarDecl("fu", Elaborated("union", "(unnamed at h.h:9:1)", "fu.union")))

(* struct _RTL_CRITICAL_SECTION { int LockCount; };  one of the names
   pre_define_types seeds as an empty structure. *)
NodesSeeded ==
    ("CS" :> StructDef("CS", "struct", "_RTL_CRITICAL_SECTION", <<"CS.LockCount">>, 4))
    @@ ("CS.LockCount" :> FieldDecl("LockCount", IntT, "CS"))

(* int iv;  const int ci; *)
NodesPrimitive ==
    ("iv" :> VarDecl("iv", IntT))
    @@ ("ci" :> VarDecl("ci", Builtin("INT", <<"const", "int">>)))

Nodes ==
    ("NO_DECL_FOUND" :> NoDeclFound)
    @@ NodesA @@ NodesCyclic @@ NodesPointersArrays @@ NodesFunctions @@ NodesOther
    @@ NodesAnonymous @@ NodesPrimitive @@ NodesNested @@ NodesSameFieldName
    @@ NodesSeeded

---------------------------------------------------------------------------
(* The handlers of ast_handlers.py.  node is a cursor's id, view the
   BinaryView, depth the nesting of the call.  tu.cursors is the AST of the
   translation unit parsed. *)

Node(node) == tu.cursors[node]

get_fields(type) == Node(get_declaration(type)).fields

(* clang_getCursorDefinition: a cursor that is a definition is its own. *)
get_definition(node) ==
    IF Node(node).is_definition THEN node ELSE get_declaration(Node(node).type)

Registered(view, pair) ==
    /\ pair.some
    /\ pair.name \in DOMAIN view.types
    /\ view.types[pair.name] = pair.type

Call(view, fn, node, depth) ==
    Log(view, [e |-> "call", fn |-> fn, node |-> node, depth |-> depth])

(* The exit of a handler, logged when it returns (not when it raises). *)
Returned(r, fn, node, depth) ==
    IF r.exc # "" THEN r
    ELSE [r EXCEPT !.bv = Log(@, [e |-> "return", fn |-> fn, node |-> node, depth |-> depth,
                                  ret |-> r.ret, path |-> r.path,
                                  registered |-> Registered(r.bv, r.ret)])]

(* The statements after a call: skipped when the call raised. *)
Then(r, Rest(_)) == IF r.exc # "" THEN r ELSE Rest(r)

Bind(value, Rest(_)) == Rest(value)

ParsedResult(q) ==
    IF q.p.ok THEN Return(q.view, q.p.name, q.p.type) ELSE Raise(q.view, "SyntaxError")

(* A parse that also registers what it parsed. *)
ParsedAndRegistered(view, text) ==
    IF ParseTypeString(view, text).ok
    THEN Return(define_user_type(parse_type_string(view, text).view,
                                 ParseTypeString(view, text).name,
                                 ParseTypeString(view, text).type),
                ParseTypeString(view, text).name, ParseTypeString(view, text).type)
    ELSE Raise(parse_type_string(view, text).view, "SyntaxError")

(* "type, name = bv.parse_type_string(text)" *)
Parsed(view, text) == ParsedResult(parse_type_string(view, text))

(* "bv.define_user_type(name, type); return name, type" *)
Define(view, name, type) == Return(define_user_type(view, name, type), name, type)

(* The type a sub-resolution gave, with no pointer around it. *)
NoPointerAround(r) == r

(* bn.Type.pointer(bv.arch, type) around the type a sub-resolution gave *)
PointerAround(r) == IF r.exc # "" THEN r ELSE [r EXCEPT !.ret.type = Pointer(@)]

(* bn.Type.array(type, count) around the type a sub-resolution gave *)
ArrayAround(r, count) == IF r.exc # "" THEN r ELSE [r EXCEPT !.ret.type = Array(@, count)]

Normalized(spelling) == IF spelling \in void_types THEN <<"void">> ELSE spelling

\* src/ast_handlers.py:617
is_recursive_field(field) ==
    /\ Node(field).type.kind = "POINTER"
    /\ get_pointee(Node(field).type).spelling
         = Node(Node(field).semantic_parent).type.spelling

(* The "while current_pointer_type.kind == TypeKind.POINTER" loop. *)
RECURSIVE WalkPointers(_, _)
WalkPointers(current_pointer_type, nested_pointer_count) ==
    IF current_pointer_type.kind = "POINTER"
    THEN WalkPointers(get_pointee(current_pointer_type), nested_pointer_count + 1)
    ELSE [count |-> nested_pointer_count, type |-> current_pointer_type]

(* The "for nesting_level in range(nested_pointer_count)" loop. *)
RECURSIVE WrapPointers(_, _)
WrapPointers(type, count) ==
    IF count = 0 THEN type ELSE WrapPointers(Pointer(type), count - 1)

RECURSIVE define_type(_, _, _), dispatch(_, _, _), pointer_type(_, _, _),
          pointer_value(_, _, _, _), pointer_no_declaration(_, _, _, _),
          functionproto_type(_, _, _),
          constantarray_type(_, _, _), constantarray_element(_, _, _),
          incompletearray_type(_, _, _), incompletearray_element(_, _, _),
          typedef_decl(_, _, _), var_decl(_, _, _),
          function_decl(_, _, _), function_params(_, _, _, _, _),
          function_param(_, _, _, _), enum_decl(_, _, _), struct_decl(_, _, _),
          struct_field(_, _, _, _), struct_fields(_, _, _, _),
          define_anonymous_type(_, _, _), anonymous_field(_, _, _, _),
          anonymous_fields(_, _, _, _), field_decl(_, _, _)

(* define_type: the already-defined shortcut, then the dispatch on the type
   kind and the cursor kind. *)
define_type(node, view, depth) ==
    IF depth > RecursionLimit THEN Raise(view, "RecursionError")
    ELSE Returned(dispatch(node, Call(view, "define_type", node, depth), depth),
                  "define_type", node, depth)

Via(path, r) == [r EXCEPT !.path = path]

dispatch(node, view, depth) ==
    LET n == Node(node)
        current_type == IF n.spelling # <<>> THEN get_type_by_name(view, n.type.spelling)
                        ELSE None
    IN IF current_type # None
       THEN Via("defined", Return(view, n.spelling, current_type))
       ELSE IF check_if_base_type(n.type)
       THEN Via("base", Parsed(view, n.type.spelling \o n.spelling))
       ELSE IF n.is_anonymous
       THEN Via("anonymous", define_anonymous_type(node, view, depth + 1))
       ELSE IF n.type.kind = "ELABORATED"
       THEN define_type(get_declaration(n.type), view, depth + 1)
       ELSE IF n.type.kind = "CONSTANTARRAY"
       THEN Via("constantarray", constantarray_type(node, view, depth + 1))
       ELSE IF n.type.kind = "INCOMPLETEARRAY"
       THEN Via("incompletearray", incompletearray_type(node, view, depth + 1))
       ELSE IF n.type.kind = "FUNCTIONPROTO"
       THEN Via("functionproto", functionproto_type(node, view, depth + 1))
       ELSE IF n.type.kind = "POINTER"
       THEN Via("pointer", pointer_type(node, view, depth + 1))
       ELSE IF n.kind = "TYPEDEF_DECL"
       THEN IF n.type.kind = "TYPEDEF" /\ n.underlying_typedef_type.kind = "FUNCTIONPROTO"
            THEN Via("function", function_decl(node, view, depth + 1))
            ELSE IF n.type.kind = "TYPEDEF" /\ n.underlying_typedef_type.kind = "POINTER"
            THEN Via("pointer", pointer_type(node, view, depth + 1))
            ELSE Via("typedef", typedef_decl(node, view, depth + 1))
       ELSE IF n.kind = "PARM_DECL"
       THEN IF n.type.kind = "TYPEDEF"
            THEN Via("typedef", typedef_decl(node, view, depth + 1))
            ELSE Via("unhandled", ReturnNone(view))
       ELSE IF n.kind = "VAR_DECL"
       THEN Via("var", var_decl(node, view, depth + 1))
       ELSE IF n.kind = "FUNCTION_DECL"
       THEN Via("function", function_decl(node, view, depth + 1))
       ELSE IF n.kind = "ENUM_DECL"
       THEN Via("enum", enum_decl(node, view, depth + 1))
       ELSE IF n.kind = "STRUCT_DECL"
       THEN Via("struct", struct_decl(node, view, depth + 1))
       ELSE IF n.kind = "FIELD_DECL"
       THEN Via("field", field_decl(node, view, depth + 1))
       ELSE IF n.kind = "UNION_DECL"
       THEN Via("struct", struct_decl(node, view, depth + 1))
       ELSE Via("unhandled", ReturnNone(view))

\* src/ast_handlers.py:92
pointer_type(node, view, depth) ==
    IF Node(node).type.kind \notin {"TYPEDEF", "POINTER"}
    THEN ReturnNone(Call(view, "pointer_type", node, depth))
    ELSE Then(pointer_value(node,
                  IF Node(node).type.kind = "TYPEDEF"
                  THEN get_pointee(Node(node).underlying_typedef_type)
                  ELSE get_pointee(Node(node).type),
                  Call(view, "pointer_type", node, depth), depth),
              LAMBDA p : Returned(Define(p.bv, Node(node).spelling, p.ret.type),
                                  "pointer_type", node, depth))

(* Lines 103-193: the pointer to register, in ret.type. *)
pointer_value(node, pointee_type, view, depth) ==
    IF check_if_base_type(pointee_type)
    THEN PointerAround(Parsed(view, Normalized(pointee_type.spelling)))
    ELSE IF Node(get_declaration(pointee_type)).kind = "NO_DECL_FOUND"
    THEN pointer_no_declaration(node, pointee_type, view, depth)
    ELSE IF get_type_by_name(view, Node(get_declaration(pointee_type)).spelling) = None
    THEN PointerAround(Unpack(define_type(get_declaration(pointee_type), view, depth + 1)))
    ELSE Return(view, <<>>,
                Pointer(get_type_by_name(view, Node(get_declaration(pointee_type)).spelling)))

(* Lines 153-169: the chain below a pointer to a pointer to a pointer; walk
   is the count and the base the while loop ends with.  define_type on the
   base, a Type and no Cursor, is an AttributeError. *)
nested_pointers(walk, view) ==
    IF check_if_base_type(walk.type)
    THEN Then(Parsed(view, walk.type.spelling),
              LAMBDA base : [base EXCEPT !.ret.type =
                                Pointer(Pointer(WrapPointers(Pointer(@), walk.count)))])
    ELSE Raise(view, "AttributeError")

(* Lines 114-184: the pointee has no declaration node. *)
pointer_no_declaration(node, pointee_type, view, depth) ==
    LET inner == get_pointee(pointee_type)
        pointee_result_type == get_result(pointee_type)
    IN IF pointee_type.kind = "FUNCTIONPROTO"
       THEN PointerAround(Unpack(function_decl(node, view, depth + 1)))
       ELSE IF pointee_type.kind = "FUNCTIONNOPROTO"
       THEN Then(IF check_if_base_type(pointee_result_type)
                 THEN Parsed(view, Normalized(pointee_result_type.spelling))
                 ELSE Unpack(define_type(get_declaration(pointee_result_type),
                                         view, depth + 1)),
                 LAMBDA result :
                    [result EXCEPT !.ret.type = Pointer(Function(@, <<>>, "", FALSE))])
       ELSE IF pointee_type.kind = "POINTER"
       THEN IF check_if_base_type(inner)
            THEN PointerAround(Parsed(view, Normalized(inner.spelling)))
            ELSE IF inner.kind = "POINTER"
            THEN nested_pointers(WalkPointers(inner, 1), view)
            ELSE IF Node(get_declaration(inner)).kind = "NO_DECL_FOUND"
            THEN PointerAround(Parsed(view, pointee_type.spelling))
            ELSE PointerAround(Unpack(define_type(get_declaration(inner), view, depth + 1)))
       ELSE PointerAround(Parsed(view, Node(node).underlying_typedef_type.spelling))

(* A functionproto_type that hands every node to function_decl. *)
NeverSkipped(node, view, depth) == function_decl(node, view, depth + 1)

\* src/ast_handlers.py:200
functionproto_type(node, view, depth) ==
    IF \/ Node(node).kind \in {"TYPEDEF_DECL", "PARM_DECL"}
       \/ ~Node(node).is_definition
    THEN function_decl(node, view, depth + 1)
    ELSE ReturnNone(view)

\* src/ast_handlers.py:212
constantarray_type(node, view, depth) ==
    Then(constantarray_element(node, Call(view, "constantarray_type", node, depth), depth),
         LAMBDA a : Returned(Define(a.bv, Node(node).spelling, a.ret.type),
                             "constantarray_type", node, depth))

(* Lines 215-271: the array to register, in ret.type. *)
constantarray_element(node, view, depth) ==
    LET element_type == get_array_element_type(Node(node).type)
        size == get_array_size(Node(node).type)
    IN IF Truthy(get_type_by_name(view, element_type.spelling))
       THEN Return(view, <<>>, Array(get_type_by_name(view, element_type.spelling), size))
       ELSE IF Node(get_declaration(element_type)).is_anonymous
       THEN ArrayAround(Unpack(define_anonymous_type(get_declaration(element_type),
                                                     view, depth + 1)), size)
       ELSE IF check_if_base_type(element_type)
       THEN ArrayAround(Parsed(view, element_type.spelling), size)
       ELSE IF element_type.kind = "POINTER"
       THEN IF check_if_base_type(get_pointee(element_type))
            THEN ArrayAround(PointerAround(
                     Parsed(view, get_pointee(element_type).spelling)), size)
            ELSE ArrayAround(Unpack(define_type(
                     get_declaration(get_pointee(element_type)), view, depth + 1)), size)
       ELSE IF element_type.kind = "CONSTANTARRAY"
       THEN IF check_if_base_type(get_array_element_type(element_type))
            THEN ArrayAround(ArrayAround(
                     Parsed(view, get_array_element_type(element_type).spelling),
                     get_array_size(element_type)), size)
            ELSE ArrayAround(Unpack(define_type(
                     get_declaration(get_array_element_type(element_type)),
                     view, depth + 1)), size)
       ELSE ArrayAround(Unpack(define_type(get_declaration(element_type), view, depth + 1)),
                        size)

\* src/ast_handlers.py:277
incompletearray_type(node, view, depth) ==
    Then(incompletearray_element(get_array_element_type(Node(node).type),
                                 Call(view, "incompletearray_type", node, depth), depth),
         LAMBDA element :
            Returned(Return(element.bv, Node(node).spelling,
                            Array(element.ret.type, INCOMPLETE_ARRAY_ARBITRARY_SIZE)),
                     "incompletearray_type", node, depth))

(* Lines 283-299: the element type, in ret.type. *)
incompletearray_element(bn_array_element_type, view, depth) ==
    IF check_if_base_type(bn_array_element_type)
    THEN Parsed(view, bn_array_element_type.spelling)
    ELSE IF bn_array_element_type.kind = "POINTER"
    THEN IF check_if_base_type(get_pointee(bn_array_element_type))
         THEN PointerAround(Parsed(view,
                  Normalized(get_pointee(bn_array_element_type).spelling)))
         ELSE PointerAround(Unpack(define_type(
                  get_declaration(get_pointee(bn_array_element_type)), view, depth + 1)))
    ELSE Unpack(define_type(get_declaration(bn_array_element_type), view, depth + 1))

(* node.spelling.endswith('_t') and node.spelling[:-1] + 'T', on the typedef
   names of the headers. *)
EndsWith_t(spelling) == spelling \in {<<"size_t">>, <<"ptrdiff_t">>}

AlteredSpelling(spelling) ==
    IF spelling = <<"size_t">> THEN <<"size_T">>
    ELSE IF spelling = <<"ptrdiff_t">> THEN <<"ptrdiff_T">>
    ELSE spelling

(* Lines 352-359: "bv.define_user_type(name, var_type); return str(name),
   var_type" under try/except, entered with the parse q that bound them. *)
typedef_defined(node, q, name, depth) ==
    Returned(Define(q.view, name, q.p.type), "typedef_decl", node, depth)

(* Lines 344-345: the parse of the altered spelling, outside any try. *)
typedef_altered(node, retry, depth) ==
    IF retry.p.ok THEN typedef_defined(node, retry, retry.p.name, depth)
    ELSE Raise(retry.view, "SyntaxError")

(* Lines 323-359, after the first parse_type_string of the handler.  Where
   name and var_type stay unbound, the define at line 353 raises inside its
   try and the handler returns None. *)
typedef_parsed(node, first, depth) ==
    IF Node(node).underlying_typedef_type.spelling = <<>>
    THEN IF first.p.ok THEN typedef_defined(node, first, first.p.name, depth)
         ELSE ReturnNone(first.view)
    ELSE IF first.p.ok
    THEN typedef_defined(node, first, Node(node).spelling, depth)
    ELSE IF "syntax error" \in first.p.error
    THEN IF EndsWith_t(Node(node).spelling)
         THEN typedef_altered(node,
                  parse_type_string(first.view,
                      remove_compiler_directives(Node(node).underlying_typedef_type.spelling)
                          \o AlteredSpelling(Node(node).spelling)),
                  depth)
         ELSE IF "is not defined" \in first.p.error
         THEN Raise(first.view, "TypeError")
         ELSE ReturnNone(first.view)
    ELSE ReturnNone(first.view)

\* src/ast_handlers.py:316
typedef_decl(node, view, depth) ==
    IF Node(node).spelling # <<>> /\ Truthy(get_type_by_name(view, Node(node).spelling))
    THEN Returned(Return(Call(view, "typedef_decl", node, depth), Node(node).spelling,
                         get_type_by_name(view, Node(node).spelling)),
                  "typedef_decl", node, depth)
    ELSE typedef_parsed(node,
             parse_type_string(Call(view, "typedef_decl", node, depth),
                 IF Node(node).underlying_typedef_type.spelling = <<>>
                 THEN Node(node).type.spelling \o Node(node).spelling
                 ELSE remove_compiler_directives(Node(node).underlying_typedef_type.spelling)),
             depth)

\* src/ast_handlers.py:371
var_decl(node, view, depth) ==
    Then(Parsed(Call(view, "var_decl", node, depth),
                Node(node).type.spelling \o Node(node).spelling),
         LAMBDA parsed : Returned(Define(parsed.bv, parsed.ret.name, parsed.ret.type),
                                  "var_decl", node, depth))

(* param_type_string.replace('[]', '[4096]') *)
RECURSIVE ReplaceIncomplete(_)
ReplaceIncomplete(toks) ==
    IF Len(toks) < 2 THEN toks
    ELSE IF toks[1] = "[" /\ toks[2] = "]"
    THEN <<"[", ToString(INCOMPLETE_ARRAY_ARBITRARY_SIZE), "]">>
         \o ReplaceIncomplete(SubSeq(toks, 3, Len(toks)))
    ELSE <<toks[1]>> \o ReplaceIncomplete(Tail(toks))

(* Lines 488-495: the last convention keyword among the tokens wins. *)
RECURSIVE calling_convention(_, _)
calling_convention(tokens, function_calling_convention) ==
    IF tokens = <<>> THEN function_calling_convention
    ELSE calling_convention(Tail(tokens),
            IF Head(tokens).kind = "KEYWORD" /\ Head(tokens).spelling = "__cdecl"
            THEN "cdecl"
            ELSE IF Head(tokens).kind = "KEYWORD" /\ Head(tokens).spelling = "__fastcall"
            THEN "fastcall"
            ELSE IF Head(tokens).kind = "KEYWORD" /\ Head(tokens).spelling = "__stdcall"
            THEN "stdcall"
            ELSE function_calling_convention)

(* The branch of function_decl a node takes: lines 393, 443, 469. *)
FunctionShape(n) ==
    IF n.kind = "TYPEDEF_DECL" THEN "typedef"
    ELSE IF n.type.kind = "POINTER" THEN "pointer"
    ELSE "declaration"

(* The function type the branch reads its result, arguments and variadic
   flag from: lines 405-415, 450-452, 470. *)
FunctionType(n) ==
    IF n.kind = "TYPEDEF_DECL"
    THEN IF n.type.kind = "TYPEDEF"
         THEN IF n.underlying_typedef_type.kind = "POINTER"
              THEN get_pointee(n.underlying_typedef_type)
              ELSE n.underlying_typedef_type
         ELSE n.type
    ELSE IF n.type.kind = "POINTER" THEN get_pointee(n.type)
    ELSE n.type

(* What the parameter loop of the branch iterates: arg_types, or
   node.get_arguments(); nothing for a declaration without prototype. *)
FunctionItems(n) ==
    IF FunctionShape(n) = "declaration"
    THEN IF n.type.kind = "FUNCTIONNOPROTO" THEN <<>> ELSE n.arguments
    ELSE argument_types(FunctionType(n))

(* function_decl with line 387 alone: the flag is never read from the type. *)
NeverVariableArguments(n) == FALSE

(* variable_arguments: False at line 387, read from the type at lines 407,
   411, 415, 452 and 475. *)
VariableArguments(n) ==
    IF FunctionShape(n) = "declaration" /\ n.type.kind = "FUNCTIONNOPROTO" THEN FALSE
    ELSE is_function_variadic(FunctionType(n))

Unnamed(r) == IF r.exc # "" THEN r ELSE [r EXCEPT !.ret.name = <<>>]

(* One turn of the parameter loop of function_decl (lines 417-441, 453-468,
   476-483): the type and the name of the parameter, in ret.  item is an
   argument type for "typedef" and "pointer", a parameter cursor for
   "declaration". *)
function_param(shape, item, view, depth) ==
    IF shape = "declaration" THEN Unpack(define_type(item, view, depth + 1))
    ELSE IF shape = "pointer"
    THEN Parsed(view,
            IF item.kind = "INCOMPLETEARRAY"
            THEN ReplaceIncomplete(remove_compiler_directives(item.spelling))
            ELSE remove_compiler_directives(item.spelling))
    ELSE IF item.kind # "INCOMPLETEARRAY"
    THEN Parsed(view, remove_compiler_directives(item.spelling))
    ELSE IF check_if_base_type(get_array_element_type(item))
    THEN ArrayAround(Parsed(view, get_array_element_type(item).spelling),
                     INCOMPLETE_ARRAY_ARBITRARY_SIZE)
    ELSE IF get_array_element_type(item).kind = "POINTER"
    THEN ArrayAround(Unnamed(PointerAround(Unpack(define_type(
             get_declaration(get_pointee(get_array_element_type(item))), view, depth + 1)))),
             INCOMPLETE_ARRAY_ARBITRARY_SIZE)
    ELSE ArrayAround(Unpack(define_type(get_declaration(get_array_element_type(item)),
                                        view, depth + 1)),
                     INCOMPLETE_ARRAY_ARBITRARY_SIZE)

(* The parameter loop: func_params, in ret.type. *)
function_params(shape, items, func_params, view, depth) ==
    IF items = <<>> THEN Return(view, <<>>, func_params)
    ELSE Then(function_param(shape, Head(items), view, depth),
              LAMBDA p : function_params(shape, Tail(items),
                             Append(func_params, FunctionParameter(p.ret.type, p.ret.name)),
                             p.bv, depth))

\* src/ast_handlers.py:385
function_decl(node, view, depth) ==
    Then(function_params(FunctionShape(Node(node)), FunctionItems(Node(node)), <<>>,
                         Call(view, "function_decl", node, depth), depth),
         LAMBDA params :
            Then(Parsed(params.bv,
                        remove_compiler_directives(get_result(FunctionType(Node(node))).spelling)),
                 LAMBDA result :
                    Returned(Define(result.bv, Node(node).spelling,
                                    Function(result.ret.type, params.ret.type,
                                             calling_convention(Node(node).tokens, "default"),
                                             VariableArguments(Node(node)))),
                             "function_decl", node, depth)))

(* "for enum_member in node.get_children(): enum.append(...)" *)
EnumMembers(children) ==
    [i \in 1..Len(children) |->
        [name |-> children[i].spelling, value |-> children[i].enum_value]]

\* src/ast_handlers.py:511
enum_decl(node, view, depth) ==
    Returned(Return(define_user_type(Call(view, "enum_decl", node, depth),
                        IF Node(node).spelling # <<>> THEN Node(node).spelling
                        ELSE Node(node).type.spelling,
                        Enumeration(EnumMembers(Node(node).children))),
                    Node(node).spelling, Enumeration(EnumMembers(Node(node).children))),
             "enum_decl", node, depth)

(* One turn of the field loop of struct_decl (lines 556-571): the struct
   with the field appended, in ret.type. *)
struct_field(field, struct, view, depth) ==
    IF is_recursive_field(field)
    THEN Bind(Node(get_declaration(get_pointee(Node(field).type))).spelling,
              LAMBDA forward_decl_struct_name :
                 Bind(define_user_type(view, forward_decl_struct_name, Structure),
                      LAMBDA defined :
                         Return(defined, <<>>,
                                StructAppend(struct,
                                    get_type_by_name(defined, forward_decl_struct_name),
                                    forward_decl_struct_name))))
    ELSE IF Truthy(get_type_by_name(view, Node(field).spelling))
    THEN Return(view, <<>>,
                StructAppend(struct, get_type_by_name(view, Node(field).spelling),
                             Node(field).spelling))
    ELSE Then(Unpack(define_type(get_definition(field), view, depth + 1)),
              LAMBDA r : Return(r.bv, <<>>,
                                StructAppend(struct, r.ret.type, Node(field).spelling)))

(* "for field in node.type.get_fields()" of struct_decl. *)
struct_fields(fields, struct, view, depth) ==
    IF fields = <<>> THEN Return(view, <<>>, struct)
    ELSE Then(struct_field(Head(fields), struct, view, depth),
              LAMBDA one : struct_fields(Tail(fields), one.ret.type, one.bv, depth))

(* Lines 531-545: the empty struct sized as the node, and its name. *)
StructOf(n) == [Structure EXCEPT !.width = n.size, !.alignment = n.align]

StructName(n) == IF n.spelling # <<>> THEN n.spelling ELSE n.type.spelling

AsUnion(struct, union) == IF union THEN [struct EXCEPT !.union = TRUE] ELSE struct

\* src/ast_handlers.py:530
struct_decl(node, view, depth) ==
    Then(IF Node(node).is_definition
         THEN struct_fields(get_fields(Node(node).type), StructOf(Node(node)),
                  define_user_type(Call(view, "struct_decl", node, depth),
                                   StructName(Node(node)), Structure),
                  depth)
         ELSE Return(define_user_type(Call(view, "struct_decl", node, depth),
                                      StructName(Node(node)), Structure),
                     <<>>, StructOf(Node(node))),
         LAMBDA filled :
            Returned(Define(filled.bv, StructName(Node(node)),
                            AsUnion(filled.ret.type, Node(node).kind = "UNION_DECL")),
                     "struct_decl", node, depth))

(* A digest that forgets its input. *)
ConstantDigest(spelling) == "0"

(* xxhash.xxh64_hexdigest(spelling), taken as injective: the tokens joined. *)
RECURSIVE xxh64_hexdigest(_)
xxh64_hexdigest(spelling) ==
    IF spelling = <<>> THEN "" ELSE Head(spelling) \o "." \o xxh64_hexdigest(Tail(spelling))

(* One turn of the field loop of define_anonymous_type (lines 596-606). *)
anonymous_field(field, struct, view, depth) ==
    IF Truthy(get_type_by_name(view, Node(field).spelling))
    THEN Return(view, <<>>,
                StructAppend(struct, get_type_by_name(view, Node(field).spelling),
                             Node(field).spelling))
    ELSE Then(Unpack(define_type(get_definition(field), view, depth + 1)),
              LAMBDA r : Return(r.bv, <<>>, StructAppend(struct, r.ret.type, r.ret.name)))

(* "for field in node.type.get_fields()" of define_anonymous_type. *)
anonymous_fields(fields, struct, view, depth) ==
    IF fields = <<>> THEN Return(view, <<>>, struct)
    ELSE Then(anonymous_field(Head(fields), struct, view, depth),
              LAMBDA one : anonymous_fields(Tail(fields), one.ret.type, one.bv, depth))

\* src/ast_handlers.py:585
define_anonymous_type(node, view, depth) ==
    Then(anonymous_fields(get_fields(Node(node).type), StructOf(Node(node)),
                          Call(view, "define_anonymous_type", node, depth), depth),
         LAMBDA filled :
            Returned(Return(filled.bv,
                            <<"anon_" \o xxh64_hexdigest(Node(node).type.spelling)>>,
                            AsUnion(filled.ret.type,
                                    /\ Node(node).type.kind = "ELABORATED"
                                    /\ Node(get_declaration(Node(node).type)).kind
                                         = "UNION_DECL")),
                     "define_anonymous_type", node, depth))

\* src/ast_handlers.py:632
field_decl(node, view, depth) ==
    Returned(IF is_recursive_field(node)
             THEN ReturnNone(Call(view, "field_decl", node, depth))
             ELSE IF check_if_base_type(Node(node).type)
             THEN Catch(Parsed(Call(view, "field_decl", node, depth),
                               Node(node).type.spelling \o Node(node).spelling))
             ELSE Catch(Unpack(define_type(node, Call(view, "field_decl", node, depth),
                                           depth + 1))),
             "field_decl", node, depth)

---------------------------------------------------------------------------
(* The pass of pre_process.py over one header. *)

\* src/Libraries/ntdll/ntdll_dll.py:15
pre_load_definition == <<[var_type |-> <<"bool">>, var_name |-> <<"_Bool">>]>>

\* src/Libraries/ntdll/ntdll_dll.py:23
forward_declarations ==
    [struct |-> <<"_RTL_CRITICAL_SECTION", "_RTL_CRITICAL_SECTION_DEBUG", "IRpcChannelBuffer">>,
     typedef |-> << <<"_RTL_CRITICAL_SECTION_DEBUG", "*", "PRTL_CRITICAL_SECTION_DEBUG">> >>]

(* "t, n = bv.parse_type_string(text); bv.define_user_type(n, t)" over the
   texts of a table: lines 10-12 and 17-20. *)
RECURSIVE DefineParsed(_, _)
DefineParsed(texts, view) ==
    IF texts = <<>> THEN ReturnNone(view)
    ELSE Then(Parsed(view, Head(texts)),
              LAMBDA parsed :
                 DefineParsed(Tail(texts),
                     define_user_type(parsed.bv, parsed.ret.name, parsed.ret.type)))

(* Lines 14-16: an empty structure under each name of the table. *)
RECURSIVE DefineForward(_, _)
DefineForward(names, view) ==
    IF names = <<>> THEN view
    ELSE DefineForward(Tail(names), define_user_type(view, <<Head(names)>>, Structure))

\* src/pre_process.py:9
pre_define_types(view) ==
    Then(DefineParsed([i \in 1..Len(pre_load_definition) |->
                          pre_load_definition[i].var_type \o pre_load_definition[i].var_name],
                      view),
         LAMBDA loaded :
            DefineParsed([i \in 1..Len(forward_declarations.typedef) |->
                             forward_declarations.typedef[i] \o <<";">>],
                         DefineForward(forward_declarations.struct, loaded.bv)))

(* The top-level declarations of the headers modelled: root_node.get_children(). *)
Headers ==
    { <<"A", "x", "pa">>, <<"A", "A.fwd", "pa">>, <<"A.fwd", "A", "ppa">>,
      <<"A", "sa", "x">>, <<"pa", "A", "x">>, <<"U", "A", "x">>,
      <<"S", "p1">>, <<"M", "p1">>, <<"P", "Q">>, <<"Q", "P", "A">>,
      <<"p1", "p2", "p3", "p4">>, <<"cv", "p1">>,
      <<"a1", "a2", "p1">>, <<"a2", "a3", "p1">>,
      <<"u1", "u2", "A", "u4", "u5">>, <<"u3", "p1">>,
      <<"f", "g", "s", "h">>, <<"s", "s2", "g">>, <<"FT", "PFT", "PVT">>, <<"cb", "cb2", "np">>, <<"f", "cb", "FT", "kr">>,
      <<"an.struct", "an1", "an2">>, <<"an.struct", "A", "an1", "au.union", "au1">>,
      <<"iv", "A", "f", "ci">>,
      <<"O", "y", "iv">>,
      <<"PFT", "cb", "f">>,
      <<"cv", "cv2", "cv3">>, <<"cvu", "cvnp", "cva">>,
      <<"F1", "F2", "iv">>, <<"F2", "F1", "fu.union", "fu">>,
      <<"CS", "iv", "A">>,
      <<"E", "e", "NE.enum">>, <<"INT32", "v", "p1">>, <<"OP", "o", "p1">> }

(* index.parse(header): the cursors of the translation unit and the
   children of its root. *)
TranslationUnit(header) == [cursors |-> Nodes, children |-> header]

EmptyView == [types |-> <<>>, log |-> <<>>]

Init ==
    /\ tu \in {TranslationUnit(header) : header \in Headers}
    /\ pc = "start"
    /\ idx = 1
    /\ bv = EmptyView
    /\ exc = ""
    /\ ret = NoPair
    /\ tl = <<>>

(* What pp is left with after a call: the view, the pair returned and the
   exception that left the call, if one did. *)
After(r) ==
    /\ bv' = r.bv
    /\ ret' = r.ret
    /\ exc' = r.exc
    /\ pc' = IF r.exc # "" THEN "raised" ELSE "define"

\* src/pre_process.py:24
PreDefineTypes ==
    /\ pc = "start"
    /\ After(pre_define_types(bv))
    /\ UNCHANGED <<tu, idx, tl>>

(* One turn of the first loop of pp (lines 32-35); an exception that leaves
   define_type leaves pp. *)
DefineNode ==
    /\ pc = "define"
    /\ idx <= Len(tu.children)
    /\ After(define_type(tu.children[idx], bv, 1))
    /\ idx' = IF exc' # "" THEN idx ELSE idx + 1
    /\ UNCHANGED <<tu, tl>>

\* src/pre_process.py:39
NewTypeLibrary ==
    /\ pc = "define"
    /\ idx > Len(tu.children)
    /\ pc' = "export"
    /\ idx' = 1
    /\ UNCHANGED <<tu, bv, exc, ret, tl>>

(* bv.export_type_to_library(ntdll_tl, name, var_type) *)
export_type_to_library(lib, name, var_type) ==
    [n \in DOMAIN lib \cup {name} |-> IF n = name THEN var_type ELSE lib[n]]

(* One turn of the second loop of pp (lines 42-47). *)
ExportNode ==
    /\ pc = "export"
    /\ idx <= Len(tu.children)
    /\ tl' = IF get_type_by_name(bv, Node(tu.children[idx]).spelling) # None
             THEN export_type_to_library(tl, Node(tu.children[idx]).spelling,
                      get_type_by_name(bv, Node(tu.children[idx]).spelling))
             ELSE tl
    /\ idx' = idx + 1
    /\ UNCHANGED <<tu, pc, bv, exc, ret>>

\* src/pre_process.py:48
Finalize ==
    /\ pc = "export"
    /\ idx > Len(tu.children)
    /\ pc' = "done"
    /\ UNCHANGED <<tu, idx, bv, exc, ret, tl>>

Next == PreDefineTypes \/ DefineNode \/ NewTypeLibrary \/ ExportNode \/ Finalize

Spec == Init /\ [][Next]_vars

---------------------------------------------------------------------------
(* The handlers called on their own: define_type(node, bv) and
   field_decl(node, bv) applied to a cursor of the translation unit, one call
   after another on the same BinaryView. *)

MaxCalls == 2

(* The cursors handed to the handlers: variables, fields and parameters of
   a base type, and declarations that register something. *)
HandlerInputs == {"iv", "ci", "A.val", "A.next", "U.c", "g.b", "f", "x"}

HandlerInit ==
    /\ tu = TranslationUnit(<<"iv", "A", "f", "ci">>)
    /\ pc = "define"
    /\ idx = 1
    /\ bv = EmptyView
    /\ exc = ""
    /\ ret = NoPair
    /\ tl = <<>>

\* src/ast_handlers.py:29
ApplyDefineType ==
    /\ pc = "define"
    /\ idx <= MaxCalls
    /\ \E node \in HandlerInputs : After(define_type(node, bv, 1))
    /\ idx' = idx + 1
    /\ UNCHANGED <<tu, tl>>

\* src/ast_handlers.py:632
ApplyFieldDecl ==
    /\ pc = "define"
    /\ idx <= MaxCalls
    /\ \E node \in HandlerInputs : After(field_decl(node, bv, 1))
    /\ idx' = idx + 1
    /\ UNCHANGED <<tu, tl>>

HandlerNext == ApplyDefineType \/ ApplyFieldDecl

HandlerSpec == HandlerInit /\ [][HandlerNext]_vars

---------------------------------------------------------------------------
(* The properties of the pass, stated over the trace bv.log of the pass: the
   calls and returns of the handlers, the define_user_type calls and the
   parse_type_string calls, in the order they happened. *)

IsCall(i, fn) == bv.log[i].e = "call" /\ bv.log[i].fn = fn

IsReturn(i, fn) == bv.log[i].e = "return" /\ bv.log[i].fn = fn

IsDefine(i) == bv.log[i].e = "define"

SameCall(i, m) ==
    /\ bv.log[m].fn = bv.log[i].fn
    /\ bv.log[m].node = bv.log[i].node
    /\ bv.log[m].depth = bv.log[i].depth

(* The event at k is the return of the call at i. *)
Closes(i, k) ==
    /\ i < k
    /\ bv.log[i].e = "call"
    /\ bv.log[k].e = "return"
    /\ SameCall(i, k)
    /\ \A m \in (i + 1)..(k - 1) : ~(bv.log[m].e = "call" /\ SameCall(i, m))

DefinesBetween(i, k) == {m \in i..k : IsDefine(m)}

(* C1: a second define_type on a named node whose first define_type returned
   a pair returns the same pair and calls define_user_type not once. *)
C1_Idempotence ==
    \A i \in DOMAIN bv.log :
        (/\ IsReturn(i, "define_type")
         /\ bv.log[i].ret.some
         /\ Node(bv.log[i].node).spelling # <<>>)
        => \A j \in DOMAIN bv.log :
              (/\ i < j
               /\ IsCall(j, "define_type")
               /\ bv.log[j].node = bv.log[i].node)
              => \A k \in DOMAIN bv.log :
                    Closes(j, k)
                    => /\ bv.log[k].ret = bv.log[i].ret
                       /\ DefinesBetween(j, k) = {}

(* The type is a pointer whose pointee is the aggregate called name. *)
PointsTo(type, name) ==
    /\ type.class = "pointer"
    /\ \/ type.target.class = "named" /\ type.target.ref = name
       \/ type.target.class = "structure"

(* C2: struct_decl on a struct with a field that points to the struct
   returns without a nested struct_decl on the same struct, and the type it
   registers holds a pointer to the struct at the field's position. *)
C2_CycleSafety ==
    \A i \in DOMAIN bv.log :
        IsCall(i, "struct_decl")
        => \A k \in DOMAIN bv.log :
              Closes(i, k)
              => /\ \A m \in i..k :
                       IsCall(m, "struct_decl") /\ bv.log[m].node = bv.log[i].node
                       => m = i
                 /\ bv.log[k].registered
                 /\ \A f \in DOMAIN Node(bv.log[i].node).fields :
                       is_recursive_field(Node(bv.log[i].node).fields[f])
                       => /\ f \in DOMAIN bv.log[k].ret.type.members
                          /\ PointsTo(bv.log[k].ret.type.members[f].type,
                                      Node(bv.log[i].node).spelling)

(* C3: no exception leaves define_type into the loop of pp, and when the
   loop is over define_type was called on every child of the root. *)
C3_FailureIsolation ==
    /\ pc # "raised"
    /\ pc \in {"export", "done"}
       => \A c \in DOMAIN tu.children :
             \E i \in DOMAIN bv.log :
                /\ IsCall(i, "define_type")
                /\ bv.log[i].node = tu.children[c]
                /\ bv.log[i].depth = 1

(* C4: define_type terminates, and struct_decl is not entered for a struct
   whose struct_decl has not returned yet. *)
C4_Termination ==
    /\ exc # "RecursionError"
    /\ \A i \in DOMAIN bv.log :
          IsCall(i, "struct_decl")
          => \A j \in DOMAIN bv.log :
                (/\ i < j
                 /\ IsCall(j, "struct_decl")
                 /\ bv.log[j].node = bv.log[i].node)
                => \E k \in (i + 1)..(j - 1) : Closes(i, k)

(* C5: a pair define_type returns, on a path other than the primitive, the
   anonymous aggregate and the unbounded array, is in the registry when
   define_type returns: the name returned maps to the type returned. *)
C5_RegisteredBeforeReturn ==
    \A i \in DOMAIN bv.log :
        (/\ IsReturn(i, "define_type")
         /\ bv.log[i].ret.some
         /\ bv.log[i].path \notin {"base", "anonymous", "incompletearray"})
        => bv.log[i].registered

Populated(type) == type.class = "structure" /\ type.members # <<>>

(* C6: once a name is registered with a populated structure, no later
   define_user_type puts the empty placeholder under that name. *)
C6_RegistryFinality ==
    \A i \in DOMAIN bv.log :
        (IsDefine(i) /\ Populated(bv.log[i].type))
        => \A j \in DOMAIN bv.log :
              (i < j /\ IsDefine(j) /\ bv.log[j].name = bv.log[i].name)
              => bv.log[j].type # Structure

(* The depth of a pointer chain of the AST and the type it ends with. *)
RECURSIVE PointerDepth(_)
PointerDepth(type) ==
    IF type.kind = "POINTER" THEN 1 + PointerDepth(get_pointee(type)) ELSE 0

RECURSIVE ChainBase(_)
ChainBase(type) == IF type.kind = "POINTER" THEN ChainBase(get_pointee(type)) ELSE type

(* The pointer wrappers around a registered type. *)
RECURSIVE Wrappers(_)
Wrappers(type) == IF type.class = "pointer" THEN 1 + Wrappers(type.target) ELSE 0

(* C7: pointer_type on a node whose type is a chain of d pointers over a
   primitive or a declared base registers, under the node's name, a type of
   exactly d pointer wrappers. *)
C7_PointerChainDepth ==
    \A i \in DOMAIN bv.log :
        (/\ IsReturn(i, "pointer_type")
         /\ bv.log[i].ret.some
         /\ Node(bv.log[i].node).type.kind = "POINTER"
         /\ \/ check_if_base_type(ChainBase(Node(bv.log[i].node).type))
            \/ get_declaration(ChainBase(Node(bv.log[i].node).type)) # "NO_DECL_FOUND")
        => /\ bv.log[i].registered
           /\ bv.log[i].ret.name = Node(bv.log[i].node).spelling
           /\ Wrappers(bv.log[i].ret.type) = PointerDepth(Node(bv.log[i].node).type)

(* The sizes of a fixed array of the AST, outermost first, and its element. *)
RECURSIVE Sizes(_)
Sizes(type) ==
    IF type.kind = "CONSTANTARRAY"
    THEN <<get_array_size(type)>> \o Sizes(get_array_element_type(type))
    ELSE <<>>

RECURSIVE Element(_)
Element(type) ==
    IF type.kind = "CONSTANTARRAY" THEN Element(get_array_element_type(type)) ELSE type

(* The counts of a registered array type, outermost first. *)
RECURSIVE Counts(_)
Counts(type) ==
    IF type.class = "array" THEN <<type.count>> \o Counts(type.element) ELSE <<>>

(* C8: constantarray_type on a node whose type is a fixed array of k
   dimensions over a primitive returns, and registers under the node's name
   the nested array of the same sizes in the same order. *)
C8_ArrayDimensionality ==
    \A i \in DOMAIN bv.log :
        (/\ IsCall(i, "constantarray_type")
         /\ check_if_base_type(Element(Node(bv.log[i].node).type)))
        => \E k \in DOMAIN bv.log :
              /\ Closes(i, k)
              /\ bv.log[k].registered
              /\ bv.log[k].ret.name = Node(bv.log[i].node).spelling
              /\ Counts(bv.log[k].ret.type) = Sizes(Node(bv.log[i].node).type)

(* C9: incompletearray_type always returns; what it returns is an array of
   4096 elements, and it registers nothing under the node's name. *)
C9_UnboundedArraySubstitution ==
    \A i \in DOMAIN bv.log :
        IsCall(i, "incompletearray_type")
        => \E k \in DOMAIN bv.log :
              /\ Closes(i, k)
              /\ bv.log[k].ret.some
              /\ bv.log[k].ret.type.class = "array"
              /\ bv.log[k].ret.type.count = 4096
              /\ \A m \in DefinesBetween(i, k) :
                    bv.log[m].name # Node(bv.log[i].node).spelling

(* The function type a declaration, a typedef or a pointer declares. *)
Prototype(n) ==
    IF n.kind = "TYPEDEF_DECL"
    THEN IF n.underlying_typedef_type.kind = "POINTER"
         THEN get_pointee(n.underlying_typedef_type)
         ELSE n.underlying_typedef_type
    ELSE IF n.type.kind = "POINTER" THEN get_pointee(n.type)
    ELSE n.type

(* The type has a prototype that ends with "...". *)
DeclaredVariadic(type) == type.kind = "FUNCTIONPROTO" /\ type.variadic

(* The parameter registered is the lowering of the argument declared. *)
LowersArgument(parameter, type) ==
    check_if_base_type(type)
    => parameter.type.class = "prim" /\ <<parameter.type.name>> = type.spelling

(* C10: the signature function_decl registers is variadic exactly when the
   function type of the node is declared with "...", and has one parameter
   per declared argument, in the order of the declaration. *)
C10_VariadicPreservation ==
    \A i \in DOMAIN bv.log :
        IsReturn(i, "function_decl")
        => /\ bv.log[i].registered
           /\ bv.log[i].ret.type.variable_arguments
                 = DeclaredVariadic(Prototype(Node(bv.log[i].node)))
           /\ Len(bv.log[i].ret.type.params)
                 = Len(Prototype(Node(bv.log[i].node)).args)
           /\ \A p \in DOMAIN bv.log[i].ret.type.params :
                 /\ LowersArgument(bv.log[i].ret.type.params[p],
                                   Prototype(Node(bv.log[i].node)).args[p])
                 /\ Node(bv.log[i].node).kind = "FUNCTION_DECL"
                    => bv.log[i].ret.type.params[p].name
                          = Node(Node(bv.log[i].node).arguments[p]).spelling

(* The return of function_decl on node, with a variadic signature of at
   least one parameter registered. *)
RegisteredVariadic(node) ==
    \E i \in DOMAIN bv.log :
        /\ IsReturn(i, "function_decl")
        /\ bv.log[i].node = node
        /\ bv.log[i].registered
        /\ bv.log[i].ret.type.variable_arguments
        /\ bv.log[i].ret.type.params # <<>>

(* C10's case: a pass that resolved a variadic function in each of the
   three shapes, and a declaration without prototype. *)
C10_Witness ==
    /\ pc = "done"
    /\ RegisteredVariadic("f")
    /\ RegisteredVariadic("FT")
    /\ RegisteredVariadic("cb")
    /\ \E i \in DOMAIN bv.log : IsReturn(i, "function_decl") /\ bv.log[i].node = "kr"

(* The convention keywords among the tokens of a declaration, in order. *)
ConventionKeywords(tokens) ==
    SelectSeq(tokens, LAMBDA token :
        token.kind = "KEYWORD" /\ token.spelling \in {"__cdecl", "__fastcall", "__stdcall"})

(* The convention a keyword names. *)
ConventionOf(keyword) ==
    IF keyword = "__cdecl" THEN "cdecl"
    ELSE IF keyword = "__fastcall" THEN "fastcall"
    ELSE "stdcall"

(* C11: a function whose tokens hold no convention keyword is registered
   with the default convention; one declared with a convention keyword is
   registered with that convention, whatever keyword a later token of the
   declaration carries. *)
C11_CallingConvention ==
    \A i \in DOMAIN bv.log :
        IsReturn(i, "function_decl")
        => bv.log[i].ret.type.calling_convention
              = IF ConventionKeywords(Node(bv.log[i].node).tokens) = <<>>
                THEN "default"
                ELSE ConventionOf(Head(ConventionKeywords(Node(bv.log[i].node).tokens)).spelling)

(* C12: the name define_anonymous_type returns is "anon_" followed by the
   digest of the node's type spelling; two returns of it, anywhere in the
   pass, carry the same name exactly when the type spellings are equal. *)
C12_AnonymousDeterminism ==
    \A i, j \in DOMAIN bv.log :
        (IsReturn(i, "define_anonymous_type") /\ IsReturn(j, "define_anonymous_type"))
        => /\ bv.log[i].ret.some
           /\ bv.log[i].ret.name
                = <<"anon_" \o xxh64_hexdigest(Node(bv.log[i].node).type.spelling)>>
           /\ (bv.log[i].ret.name = bv.log[j].ret.name)
                <=> (Node(bv.log[i].node).type.spelling = Node(bv.log[j].node).type.spelling)

(* The same anonymous struct named twice with a registration in between,
   and an anonymous union named in the same pass. *)
C12_Witness ==
    \E i, j, k \in DOMAIN bv.log :
        /\ IsReturn(i, "define_anonymous_type") /\ IsReturn(j, "define_anonymous_type")
        /\ IsReturn(k, "define_anonymous_type")
        /\ i < j
        /\ Node(bv.log[i].node).type.spelling = Node(bv.log[j].node).type.spelling
        /\ DefinesBetween(i, j) # {}
        /\ Node(bv.log[k].node).type.spelling # Node(bv.log[i].node).type.spelling

MemberNames(type) == [m \in DOMAIN type.members |-> type.members[m].name]

FieldNames(node) == [f \in DOMAIN Node(node).fields |-> Node(Node(node).fields[f]).spelling]

(* C13: when struct_decl returns a pair for a definition, the aggregate it
   registered has one member per field of the node, in declaration order,
   and the i-th member carries the i-th field's spelling. *)
C13_FieldListFidelity ==
    \A i \in DOMAIN bv.log :
        (/\ IsReturn(i, "struct_decl")
         /\ bv.log[i].ret.some
         /\ Node(bv.log[i].node).is_definition)
        => /\ bv.log[i].registered
           /\ MemberNames(bv.log[i].ret.type) = FieldNames(bv.log[i].node)

(* The names registered before the event at i. *)
KeysBefore(i) == {bv.log[m].name : m \in {m \in 1..i : IsDefine(m)}}

(* A call of define_type or field_decl on a cursor of a base type whose type
   spelling is not a registry key. *)
PrimitiveCall(i) ==
    /\ bv.log[i].e = "call"
    /\ bv.log[i].fn \in {"define_type", "field_decl"}
    /\ check_if_base_type(Node(bv.log[i].node).type)
    /\ Node(bv.log[i].node).type.spelling \notin KeysBefore(i)

(* C14: define_type, and field_decl, on a cursor of a base type parse
   "<type spelling> <node spelling>", return the type parsed and call
   define_user_type not once, whatever the kind of the cursor. *)
C14_PrimitivesNeverRegistered ==
    \A i \in DOMAIN bv.log :
        PrimitiveCall(i)
        => \E k \in DOMAIN bv.log :
              /\ Closes(i, k)
              /\ DefinesBetween(i, k) = {}
              /\ bv.log[k].ret.some
              /\ \E p \in i..k :
                    /\ bv.log[p].e = "parse"
                    /\ bv.log[p].text
                         = Node(bv.log[i].node).type.spelling \o Node(bv.log[i].node).spelling
                    /\ ParseTypeString(EmptyView, bv.log[p].text).ok
                    /\ bv.log[k].ret.type = ParseTypeString(EmptyView, bv.log[p].text).type

(* field_decl has returned for a primitive field on a view that already
   holds a registration, and define_type for a primitive that is not a field. *)
C14_Witness ==
    \E i, j \in DOMAIN bv.log :
        /\ PrimitiveCall(i) /\ bv.log[i].fn = "field_decl" /\ bv.log[i].depth = 1
        /\ KeysBefore(i) # {}
        /\ \E k \in DOMAIN bv.log : Closes(i, k)
        /\ PrimitiveCall(j) /\ bv.log[j].fn = "define_type"
        /\ Node(bv.log[j].node).kind \in {"VAR_DECL", "PARM_DECL"}
        /\ \E k \in DOMAIN bv.log : Closes(j, k)

(* C15: when pp is done, the name of every pair that define_type returned
   for a top-level declaration, if the registry holds a type under it, is in
   the type library with that type. *)
C15_ExportCompleteness ==
    pc = "done"
    => \A i \in DOMAIN bv.log :
          (/\ IsReturn(i, "define_type")
           /\ bv.log[i].depth = 1
           /\ bv.log[i].ret.some
           /\ bv.log[i].ret.name \in DOMAIN bv.types)
          => /\ bv.log[i].ret.name \in DOMAIN tl
             /\ tl[bv.log[i].ret.name] = bv.types[bv.log[i].ret.name]

(* The call at i has not returned when the event at j happens. *)
Running(i, j) ==
    /\ i < j
    /\ bv.log[i].e = "call"
    /\ \A k \in (i + 1)..(j - 1) : ~Closes(i, k)

(* C16: while struct_decl is handling an aggregate, every define_type or
   pointer_type call made for its fields finds the aggregate's name in the
   registry; and when struct_decl returns a pair, the entry under that name
   is the aggregate with one member per field, tagged union exactly when the
   node is a union declaration. *)
C16_PlaceholderFirst ==
    /\ \A i, j \in DOMAIN bv.log :
          (/\ IsCall(i, "struct_decl")
           /\ Running(i, j)
           /\ bv.log[j].e = "call"
           /\ bv.log[j].fn \in {"define_type", "pointer_type"})
          => StructName(Node(bv.log[i].node)) \in KeysBefore(j)
    /\ \A k \in DOMAIN bv.log :
          (IsReturn(k, "struct_decl") /\ bv.log[k].ret.some)
          => /\ bv.log[k].registered
             /\ bv.log[k].ret.name = StructName(Node(bv.log[k].node))
             /\ bv.log[k].ret.type.union = (Node(bv.log[k].node).kind = "UNION_DECL")
             /\ Len(bv.log[k].ret.type.members)
                  = Len(get_fields(Node(bv.log[k].node).type))

(* The pointee pointer_type takes from the node at its lines 95-98. *)
PointeeOf(n) ==
    IF n.type.kind = "TYPEDEF" THEN n.underlying_typedef_type ELSE n.type

(* A call of pointer_type on a node whose pointee is a function prototype
   without a declaration node. *)
FunctionPointerCall(i) ==
    /\ IsCall(i, "pointer_type")
    /\ PointeeOf(Node(bv.log[i].node)).kind = "POINTER"
    /\ get_pointee(PointeeOf(Node(bv.log[i].node))).kind = "FUNCTIONPROTO"
    /\ Node(get_declaration(get_pointee(PointeeOf(Node(bv.log[i].node))))).kind
         = "NO_DECL_FOUND"

(* C17: when pointer_type returns for a pointer to a function prototype,
   function_decl has first registered the signature under the node's name,
   the pointer to that signature has then been registered over it, and the
   pair returned carries the type the registry holds. *)
C17_FunctionPointerOrdering ==
    \A i, k \in DOMAIN bv.log :
        (FunctionPointerCall(i) /\ Closes(i, k))
        => /\ bv.log[k].ret.some
           /\ bv.log[k].registered
           /\ bv.log[k].ret.name = Node(bv.log[i].node).spelling
           /\ bv.log[k].ret.type.class = "pointer"
           /\ bv.log[k].ret.type.target.class = "function"
           /\ \E d, r, p \in i..k :
                 /\ d < r /\ r < p
                 /\ IsDefine(d)
                 /\ bv.log[d].name = Node(bv.log[i].node).spelling
                 /\ bv.log[d].type.class = "function"
                 /\ IsReturn(r, "function_decl") /\ bv.log[r].node = bv.log[i].node
                 /\ bv.log[r].ret.type = bv.log[d].type
                 /\ IsDefine(p)
                 /\ bv.log[p].name = Node(bv.log[i].node).spelling
                 /\ bv.log[p].type = Pointer(bv.log[d].type)
                 /\ bv.log[k].ret.type = bv.log[p].type
                 /\ \A m \in (p + 1)..k : ~IsDefine(m)

(* pointer_type has returned for a variable and for a typedef of a pointer
   to a function prototype. *)
C17_Witness ==
    \E i, k, j, l \in DOMAIN bv.log :
        /\ FunctionPointerCall(i) /\ Closes(i, k)
        /\ Node(bv.log[i].node).kind = "TYPEDEF_DECL"
        /\ FunctionPointerCall(j) /\ Closes(j, l)
        /\ Node(bv.log[j].node).kind = "VAR_DECL"

(* A call of define_type that reaches the FUNCTIONPROTO branch of the
   dispatch: the node's type is a function prototype and its spelling is
   not a registry key. *)
PrototypeCall(i) ==
    /\ IsCall(i, "define_type")
    /\ Node(bv.log[i].node).type.kind = "FUNCTIONPROTO"
    /\ Node(bv.log[i].node).type.spelling \notin KeysBefore(i)

Implementation(n) == n.is_definition /\ n.kind \notin {"TYPEDEF_DECL", "PARM_DECL"}

(* C18: define_type on a node of function-prototype type that is a
   definition, and neither a typedef nor a parameter, returns None and
   registers nothing; on every other node of function-prototype type it
   hands the node to function_decl and returns what function_decl returns. *)
C18_ImplementationsSkipped ==
    \A i \in DOMAIN bv.log :
        PrototypeCall(i)
        => IF Implementation(Node(bv.log[i].node))
           THEN \E k \in DOMAIN bv.log :
                   /\ Closes(i, k)
                   /\ ~bv.log[k].ret.some
                   /\ DefinesBetween(i, k) = {}
                   /\ \A m \in i..k : ~IsCall(m, "function_decl")
           ELSE /\ i + 1 \in DOMAIN bv.log
                /\ IsCall(i + 1, "function_decl")
                /\ bv.log[i + 1].node = bv.log[i].node
                /\ \A k \in DOMAIN bv.log :
                      Closes(i, k)
                      => /\ IsReturn(k - 1, "function_decl")
                         /\ bv.log[k - 1].node = bv.log[i].node
                         /\ bv.log[k - 1].ret = bv.log[k].ret

(* A function with a body has been skipped on a view that holds
   registrations, and a function declaration has gone through function_decl. *)
C18_Witness ==
    \E i, j, k, l \in DOMAIN bv.log :
        /\ PrototypeCall(i) /\ Implementation(Node(bv.log[i].node))
        /\ Closes(i, k)
        /\ KeysBefore(i) # {}
        /\ PrototypeCall(j) /\ ~Implementation(Node(bv.log[j].node))
        /\ Closes(j, l)
        /\ bv.log[l].ret.some

(* The registry as it stands before the event at i. *)
TypesBefore(i) ==
    [name \in KeysBefore(i) |->
        bv.log[CHOOSE m \in 1..i :
                  /\ IsDefine(m) /\ bv.log[m].name = name
                  /\ \A later \in (m + 1)..i :
                        ~(IsDefine(later) /\ bv.log[later].name = name)].type]

ViewBefore(i) == [types |-> TypesBefore(i), log |-> <<>>]

(* What the parser answers to the underlying type text of the typedef
   handled by the call at i. *)
UnderlyingParse(i) ==
    ParseTypeString(ViewBefore(i),
        remove_compiler_directives(Node(bv.log[i].node).underlying_typedef_type.spelling))

(* A call of typedef_decl whose parse of the underlying type text fails. *)
TypedefParseFailure(i) ==
    /\ IsCall(i, "typedef_decl")
    /\ i + 1 \in DOMAIN bv.log
    /\ bv.log[i + 1].e = "parse"
    /\ Node(bv.log[i].node).underlying_typedef_type.spelling # <<>>
    /\ ~UnderlyingParse(i).ok

(* C19: when the parser rejects the underlying type text, typedef_decl does
   not raise: a name ending in _t is parsed once more with its last letter
   rewritten and registered and returned under the rewritten name; else an
   "is not defined" error registers the underlying text as a named type;
   else nothing is registered and None is returned. *)
C19_TypedefRecovery ==
    \A i \in DOMAIN bv.log :
        TypedefParseFailure(i)
        => \E k \in DOMAIN bv.log :
              /\ IsReturn(k, "define_type")
              /\ i < k
              /\ bv.log[k].node = bv.log[i].node
              /\ bv.log[k].depth = bv.log[i].depth - 1
              /\ \A m \in (i + 1)..(k - 1) : ~IsCall(m, "typedef_decl")
              /\ IF EndsWith_t(Node(bv.log[i].node).spelling)
                 THEN /\ Cardinality({m \in i..k : bv.log[m].e = "parse"}) = 2
                      /\ bv.log[k].ret.some
                      /\ bv.log[k].ret.name = AlteredSpelling(Node(bv.log[i].node).spelling)
                      /\ bv.log[k].registered
                 ELSE IF "is not defined" \in UnderlyingParse(i).error
                 THEN \E d \in i..k :
                         /\ IsDefine(d)
                         /\ bv.log[d].name
                              = remove_compiler_directives(
                                    Node(bv.log[i].node).underlying_typedef_type.spelling)
                 ELSE /\ ~bv.log[k].ret.some
                      /\ DefinesBetween(i, k) = {}

(* The primitive a pointer, a chain of pointers, a pointer to a function
   without prototype, or an array of pointers ends in. *)
PrimitiveBase(type) ==
    IF type.kind \in {"CONSTANTARRAY", "INCOMPLETEARRAY"}
    THEN IF get_array_element_type(type).kind = "POINTER"
         THEN get_pointee(get_array_element_type(type))
         ELSE InvalidType
    ELSE IF type.kind = "POINTER"
    THEN IF ChainBase(type).kind = "FUNCTIONNOPROTO"
         THEN get_result(ChainBase(type))
         ELSE ChainBase(type)
    ELSE InvalidType

(* A call of a pointer or array handler on a node whose primitive pointee
   is spelled as one of the qualified voids. *)
QualifiedVoidCall(i) ==
    /\ bv.log[i].e = "call"
    /\ bv.log[i].fn \in {"pointer_type", "constantarray_type", "incompletearray_type"}
    /\ PrimitiveBase(Node(bv.log[i].node).type).spelling \in void_types

(* C20: a pointer handler or array handler that meets a primitive pointee
   spelled const void, volatile void and the like hands plain "void" to
   parse_type_string, and no parse_type_string call gets the qualified
   spelling. *)
C20_VoidNormalization ==
    /\ \A i \in DOMAIN bv.log :
          QualifiedVoidCall(i)
          => /\ i + 1 \in DOMAIN bv.log
             /\ bv.log[i + 1].e = "parse"
             /\ bv.log[i + 1].text = <<"void">>
    /\ \A p \in DOMAIN bv.log :
          bv.log[p].e = "parse" => bv.log[p].text \notin void_types

(* The declared types whose Binary Ninja type can be read off the
   declaration alone: primitives, and pointers and arrays over them. *)
RECURSIVE Lowerable(_)
Lowerable(type) ==
    IF check_if_base_type(type) THEN TRUE
    ELSE IF type.kind = "POINTER" THEN Lowerable(get_pointee(type))
    ELSE IF type.kind = "CONSTANTARRAY" THEN Lowerable(get_array_element_type(type))
    ELSE FALSE

RECURSIVE Lowered(_)
Lowered(type) ==
    IF check_if_base_type(type) THEN ParseTypeString(EmptyView, Normalized(type.spelling)).type
    ELSE IF type.kind = "POINTER" THEN Pointer(Lowered(get_pointee(type)))
    ELSE Array(Lowered(get_array_element_type(type)), get_array_size(type))

(* C21: in the aggregate that struct_decl or define_anonymous_type returns
   for a definition, the member built for a field of a primitive, pointer
   or array type has the type of that field's own declaration, whatever
   the registry held under the field's name. *)
C21_FieldTypesIndependent ==
    \A k \in DOMAIN bv.log :
        (/\ bv.log[k].e = "return"
         /\ bv.log[k].fn \in {"struct_decl", "define_anonymous_type"}
         /\ bv.log[k].ret.some
         /\ Node(bv.log[k].node).is_definition)
        => \A f \in DOMAIN Node(bv.log[k].node).fields :
              (/\ f \in DOMAIN bv.log[k].ret.type.members
               /\ Lowerable(Node(Node(bv.log[k].node).fields[f]).type))
              => bv.log[k].ret.type.members[f].type
                   = Lowered(Node(Node(bv.log[k].node).fields[f]).type)

(* A struct or union definition with fields. *)
AggregateDefinition(node) ==
    /\ Node(node).kind \in {"STRUCT_DECL", "UNION_DECL"}
    /\ Node(node).is_definition
    /\ Node(node).fields # <<>>

(* A top-level define_type call on a definition whose name the registry
   holds as an empty structure. *)
PlaceholderCall(i) ==
    /\ IsCall(i, "define_type")
    /\ bv.log[i].depth = 1
    /\ AggregateDefinition(bv.log[i].node)
    /\ StructName(Node(bv.log[i].node)) \in KeysBefore(i)
    /\ TypesBefore(i)[StructName(Node(bv.log[i].node))] = Structure

(* After define_type on the definition, the entry is the populated struct. *)
CompletedByDefinition ==
    \A i \in DOMAIN bv.log :
        PlaceholderCall(i)
        => \E k \in DOMAIN bv.log :
              /\ Closes(i, k)
              /\ bv.log[k].registered
              /\ Populated(bv.log[k].ret.type)

(* When pp is done, no aggregate defined at top level is left in the
   registry as an empty structure. *)
NoDanglingPlaceholder ==
    pc = "done"
    => \A c \in DOMAIN tu.children :
          (/\ AggregateDefinition(tu.children[c])
           /\ StructName(Node(tu.children[c])) \in DOMAIN bv.types)
          => bv.types[StructName(Node(tu.children[c]))] # Structure

(* C22: a struct name installed as an empty placeholder is populated once
   define_type has been called on the struct's definition, and at the end
   of the pass an empty placeholder is left only for aggregates the header
   does not define. *)
C22_PlaceholdersCompleted == CompletedByDefinition /\ NoDanglingPlaceholder

====
